---- MODULE Spec2Model ----
(***************************************************************************)
(* A model of vec.h (VEC 1.0.0): generic vectors addressed through a fat   *)
(* pointer.  A vec is one heap block [header | slot 0 | slot 1 | ...]; the *)
(* header holds capacity, length and item size, and the user's pointer     *)
(* points at slot 0.                                                       *)
(*                                                                         *)
(* The heap is a map from block addresses to blocks.  A block records the  *)
(* number of bytes the allocator gave it (size), the three header words    *)
(* and the element slots that fit in size - HDR bytes.  The user's pointer *)
(* is represented by the address of the block it points into.              *)
(*                                                                         *)
(* The C code has three sources of nondeterminism, all kept:               *)
(*  - malloc/realloc may fail, and realloc may move the block or not;      *)
(*  - bytes that realloc adds to a block are indeterminate;                *)
(*  - raise(SIGSEGV) terminates the process under the default disposition  *)
(*    and returns when the signal is ignored or caught by a handler that   *)
(*    returns, after which the code goes on with a null pointer.           *)
(* A store through the null-based pointer and an access outside the block  *)
(* are undefined behaviour: the model says nothing about what follows, the *)
(* state they lead to (proc "nullstore", "outside") has no successor.      *)
(*                                                                         *)
(* Sizes stay far below SIZE_MAX in every explored state, so size_t        *)
(* arithmetic is modelled without wrap-around.                             *)
(***************************************************************************)
EXTENDS Integers, Sequences, FiniteSets, TLC

VARIABLES
    hnd,    \* the caller's vec variables: the block each one points into
    heap,   \* the heap: address -> block
    proc,   \* the process: "running", "killed", "nullstore" or "outside"
    last    \* the call that produced this state, and the allocator primitive it invoked

vars == <<hnd, heap, proc, last>>

(* ------------------------------ bounds --------------------------------- *)

MaxSlots == 6       \* most element slots explored while one block is live
MaxPairSlots == 3   \* most element slots explored by the two-vec program
MaxInitCap == 2     \* largest nitems passed to vec_newlen
MaxAddr == 3        \* heap addresses

(* ------------------------- program constants --------------------------- *)

VEC_MAX_PREALLOC == 3   \* the growth threshold, scaled down from 1024*1024
SIZEOF_SIZE_T == 8

\* a header of two words
HDR_TwoWords == SIZEOF_SIZE_T * 2

HDR == SIZEOF_SIZE_T * 3

NULL == 0           \* the null pointer
Unset == -1         \* a caller variable that holds no vec
Addr == 1..MaxAddr
Vars == {"a", "b"}
Val == {0, 1}         \* the values one element slot can hold
ItemSizes == {1, 2}   \* sizeof of the stored item
Min(x, y) == IF x <= y THEN x ELSE y

Dead == [live |-> FALSE, size |-> 0, cap |-> 0, len |-> 0, isz |-> 0, data |-> <<>>]

\* arg: nitems of vec_newlen, the item of vec_push, the index of vec_insert and
\* vec_remove, the size of vec_reserve, the value a query returns; 0 for the
\* other calls
Call(op, arg, prim) == [op |-> op, arg |-> arg, prim |-> prim]

(* ------------------------------ the heap ------------------------------- *)

FreeAddrs(h) == {q \in Addr : ~h[q].live}
Fresh(h) == CHOOSE q \in FreeAddrs(h) : \A r \in FreeAddrs(h) : q <= r

\* malloc(n): NULL, or a block that was not live
Malloc(h) == {NULL} \cup (IF FreeAddrs(h) = {} THEN {} ELSE {Fresh(h)})

\* a resize that carries the slots over and not the item size
ResizedItemSizeLost(blk, n) ==
    LET k == (n - HDR) \div blk.isz
        m == Min(k, Len(blk.data))
    IN  {[blk EXCEPT !.size = n, !.isz = 1, !.data = SubSeq(blk.data, 1, m) \o j] :
            j \in [1..(k - m) -> Val]}

\* the block blk with its allocation changed to n bytes: the slots that fit in
\* both keep their bytes, slots gained are indeterminate
Resized(blk, n) ==
    LET k == (n - HDR) \div blk.isz
        m == Min(k, Len(blk.data))
    IN  {[blk EXCEPT !.size = n, !.data = SubSeq(blk.data, 1, m) \o j] :
            j \in [1..(k - m) -> Val]}

\* a reallocation that leaves the old block live when it moves the vec
ReallocKeepsOld(h, p, n) ==
    {[temp |-> NULL, heap |-> h]} \cup
    {[temp |-> q, heap |-> [h EXCEPT ![q] = b]] :
        q \in {p} \cup (IF FreeAddrs(h) = {} THEN {} ELSE {Fresh(h)}),
        b \in Resized(h[p], n)}

\* realloc(p, n): NULL and the heap untouched, or the resized block at p or at
\* a new address with the old block released
Realloc(h, p, n) ==
    {[temp |-> NULL, heap |-> h]} \cup
    {[temp |-> q, heap |-> [h EXCEPT ![p] = Dead, ![q] = b]] :
        q \in {p} \cup (IF FreeAddrs(h) = {} THEN {} ELSE {Fresh(h)}),
        b \in Resized(h[p], n)}

LiveAddrs(h) == {q \in Addr : h[q].live}
RECURSIVE SlotsIn(_, _)
SlotsIn(h, S) ==
    IF S = {} THEN 0
    ELSE LET q == CHOOSE q \in S : TRUE
         IN  Len(h[q].data) + SlotsIn(h, S \ {q})

\* the explored part of the state space
Fits(h) == SlotsIn(h, LiveAddrs(h)) <= MaxSlots
Small(h) == SlotsIn(h, LiveAddrs(h)) <= MaxPairSlots

(* ------------------------------ raise ---------------------------------- *)

\* the process terminated by the signal: its variables and its heap are gone
Killed ==
    /\ proc' = "killed"
    /\ hnd' = [v \in Vars |-> Unset]
    /\ heap' = [q \in Addr |-> Dead]

\* raise(SIGSEGV) after a failed allocation in a macro whose vec is v: the
\* default action kills the process; otherwise raise returns, the macro
\* assigns vec = (char *) NULL + HDR and stores the capacity through it
RaiseInMacro(op, arg, v, prim) ==
    /\ last' = Call(op, arg, prim)
    /\ \/ Killed
       \/ /\ proc' = "nullstore"
          /\ hnd' = [hnd EXCEPT ![v] = NULL]
          /\ heap' = heap

\* the same in a function: the null-based pointer is a local, the caller's
\* variable is never assigned
RaiseInFunction(op, arg, prim) ==
    /\ last' = Call(op, arg, prim)
    /\ \/ Killed
       \/ /\ proc' = "nullstore"
          /\ hnd' = hnd
          /\ heap' = heap

(* ------------------------- vec_new / vec_newlen ------------------------ *)

\* a fill that stops one slot short
ZerosButLast(n) == [k \in 1..n |-> IF k < n THEN 0 ELSE 1]

\* memset(vec, 0, size * nitems)
Zeros(n) == [k \in 1..n |-> 0]

vec_newlen(v, size, nitems) ==
    /\ proc = "running"
    /\ hnd[v] = Unset
    /\ \E vec \in Malloc(heap) :
         IF vec = NULL
         THEN RaiseInFunction("newlen", nitems, "malloc")
         ELSE /\ heap' = [heap EXCEPT ![vec] =
                    [live |-> TRUE, size |-> HDR + size * nitems,
                     cap |-> nitems, len |-> 0, isz |-> size,
                     data |-> Zeros(nitems)]]
              /\ hnd' = [hnd EXCEPT ![v] = vec]
              /\ proc' = "running"
              /\ last' = Call("newlen", nitems, "malloc")
              /\ Fits(heap')

vec_new(v, size) == vec_newlen(v, size, 1)

vec_newsize(v, size, nitems) == vec_newlen(v, size, nitems)

(* ------------------------------- vec_dup ------------------------------- *)

\* a total size that counts the length in place of the capacity
vec_total_size_len(blk) == HDR + blk.len * blk.isz

\* _vec_total_size(vec), from the header of the block
vec_total_size(blk) == HDR + blk.cap * blk.isz

\* a block of HDR + cap * isz bytes; memcpy of _vec_total_size(vec) bytes from
\* the header address fills the header and the slots that many bytes cover, a
\* slot of the new block the copy does not reach is indeterminate
vec_dup(v, w) ==
    /\ proc = "running"
    /\ hnd[v] \in Addr
    /\ hnd[w] = Unset
    /\ LET src == heap[hnd[v]]
           size == HDR + src.cap * src.isz
           k == (size - HDR) \div src.isz
           m == Min(k, (vec_total_size(src) - HDR) \div src.isz)
       IN  \E dup \in Malloc(heap) :
             IF dup = NULL
             THEN RaiseInFunction("dup", 0, "malloc")
             ELSE /\ \E j \in [1..(k - m) -> Val] :
                       heap' = [heap EXCEPT ![dup] =
                          [live |-> TRUE, size |-> size,
                           cap |-> src.cap, len |-> src.len, isz |-> src.isz,
                           data |-> SubSeq(src.data, 1, m) \o j]]
                  /\ hnd' = [hnd EXCEPT ![w] = dup]
                  /\ proc' = "running"
                  /\ last' = Call("dup", 0, "malloc")
                  /\ Fits(heap')

(* ------------------------------- vec_free ------------------------------ *)

vec_free(v) ==
    /\ proc = "running"
    /\ hnd[v] \in Addr
    /\ heap' = [heap EXCEPT ![hnd[v]] = Dead]
    /\ hnd' = [hnd EXCEPT ![v] = Unset]
    /\ proc' = "running"
    /\ last' = Call("free", 0, "free")

(* --------------------------- stores and moves -------------------------- *)

\* vec[i] = item, for a slot of the block
Store(data, i, item) == [data EXCEPT ![i + 1] = item]

\* whether memmove of n slots from slot src to slot dst leaves the block
MoveOutside(data, dst, src, n) ==
    n > 0 /\ (dst + n > Len(data) \/ src + n > Len(data))

\* a move that stops one slot short
MemmoveShort(data, dst, src, n) ==
    [k \in 1..Len(data) |->
        IF k - 1 >= dst /\ k - 1 < dst + n - 1 THEN data[k - dst + src] ELSE data[k]]

\* memmove of n slots from slot src to slot dst (overlap-safe), inside the block
Memmove(data, dst, src, n) ==
    [k \in 1..Len(data) |->
        IF k - 1 >= dst /\ k - 1 < dst + n THEN data[k - dst + src] ELSE data[k]]

(* ------------------------------- vec_push ------------------------------ *)

\* a growth policy that stops doubling one capacity too early
PushNewCapStrict(cap) == IF cap < VEC_MAX_PREALLOC THEN cap * 2 ELSE cap + 1

PushNewCap(cap) == IF cap <= VEC_MAX_PREALLOC THEN cap * 2 ELSE cap + 1

\* ++len; vec[len - 1] = item, on the block at p in heap h
PushStore(v, p, h, item, prim) ==
    LET h1 == [h EXCEPT ![p].len = @ + 1]
        i == h1[p].len - 1
    IN  /\ hnd' = [hnd EXCEPT ![v] = p]
        /\ last' = Call("push", item, prim)
        /\ IF i < Len(h1[p].data)
           THEN /\ heap' = [h1 EXCEPT ![p].data = Store(@, i, item)]
                /\ proc' = "running"
           ELSE /\ heap' = h1
                /\ proc' = "outside"
        /\ Fits(heap')

vec_push(v, item) ==
    /\ proc = "running"
    /\ hnd[v] \in Addr
    /\ LET p == hnd[v]
           blk == heap[p]
       IN  IF blk.len = blk.cap
           THEN LET new_cap == PushNewCap(blk.cap)
                    new_total_size == HDR + new_cap * blk.isz
                IN  \E r \in Realloc(heap, p, new_total_size) :
                      IF r.temp = NULL
                      THEN RaiseInMacro("push", item, v, "realloc")
                      ELSE PushStore(v, r.temp,
                              [r.heap EXCEPT ![r.temp].cap = new_cap], item, "realloc")
           ELSE PushStore(v, p, heap, item, "none")

(* ------------------------------ vec_insert ----------------------------- *)

\* a growth for vec_insert that never doubles
InsertNewCapLinear(cap) == cap + 1

InsertNewCap(cap) == IF cap <= VEC_MAX_PREALLOC THEN cap * 2 ELSE cap + 1

\* an index test that lets one index past the end through
InsertIndexOKPastEnd(index, len) == index >= 0 /\ index <= len + 1

\* (size_t) index == index && index >= 0 && index <= len, for an integer index
InsertIndexOK(index, len) == index >= 0 /\ index <= len

\* ++len; memmove(vec + index + 1, vec + index, len - 1 - index); vec[index] = item
InsertStore(v, p, h, item, index, prim) ==
    LET h1 == [h EXCEPT ![p].len = @ + 1]
        data == h1[p].data
        n == (h1[p].len - 1) - index
    IN  /\ hnd' = [hnd EXCEPT ![v] = p]
        /\ last' = Call("insert", index, prim)
        /\ IF MoveOutside(data, index + 1, index, n) \/ index >= Len(data)
           THEN /\ heap' = h1
                /\ proc' = "outside"
           ELSE /\ heap' = [h1 EXCEPT ![p].data =
                               Store(Memmove(data, index + 1, index, n), index, item)]
                /\ proc' = "running"
        /\ Fits(heap')

vec_insert(v, item, index) ==
    /\ proc = "running"
    /\ hnd[v] \in Addr
    /\ LET p == hnd[v]
           blk == heap[p]
       IN  IF InsertIndexOK(index, blk.len)
           THEN IF blk.len = blk.cap
                THEN LET new_cap == InsertNewCap(blk.cap)
                         new_total_size == HDR + new_cap * blk.isz
                     IN  \E r \in Realloc(heap, p, new_total_size) :
                           IF r.temp = NULL
                           THEN RaiseInMacro("insert", index, v, "realloc")
                           ELSE InsertStore(v, r.temp,
                                   [r.heap EXCEPT ![r.temp].cap = new_cap],
                                   item, index, "realloc")
                ELSE InsertStore(v, p, heap, item, index, "none")
           ELSE /\ UNCHANGED <<hnd, heap, proc>>
                /\ last' = Call("insert", index, "none")

(* ------------------------------- vec_swap ------------------------------ *)

vec_swap(v, w) ==
    /\ proc = "running"
    /\ v # w
    /\ hnd[v] \in Addr
    /\ hnd[w] \in Addr
    /\ hnd' = [hnd EXCEPT ![v] = hnd[w], ![w] = hnd[v]]
    /\ UNCHANGED <<heap, proc>>
    /\ last' = Call("swap", 0, "none")

(* ------------------------------ vec_reserve ---------------------------- *)

\* a test that also reallocates when size equals the capacity
ReserveNeededAtCap(size, cap) == size >= cap

\* (size_t) size == size && size > cap, for a size_t size
ReserveNeeded(size, cap) == size > cap

vec_reserve(v, size) ==
    /\ proc = "running"
    /\ hnd[v] \in Addr
    /\ LET p == hnd[v]
           blk == heap[p]
       IN  IF ReserveNeeded(size, blk.cap)
           THEN \E r \in Realloc(heap, p, HDR + size * blk.isz) :
                  IF r.temp = NULL
                  THEN RaiseInMacro("reserve", size, v, "realloc")
                  ELSE /\ hnd' = [hnd EXCEPT ![v] = r.temp]
                       /\ heap' = [r.heap EXCEPT ![r.temp].cap = size]
                       /\ proc' = "running"
                       /\ last' = Call("reserve", size, "realloc")
                       /\ Fits(heap')
           ELSE /\ UNCHANGED <<hnd, heap, proc>>
                /\ last' = Call("reserve", size, "none")

(* ------------------------------ vec_shrink ----------------------------- *)

ShrinkNeeded(cap, len) == cap # len
ShrinkNewCap(len) == IF len > 0 THEN len ELSE 1

vec_shrink(v) ==
    /\ proc = "running"
    /\ hnd[v] \in Addr
    /\ LET p == hnd[v]
           blk == heap[p]
       IN  IF ShrinkNeeded(blk.cap, blk.len)
           THEN LET new_cap == ShrinkNewCap(blk.len)
                IN  \E r \in Realloc(heap, p, HDR + new_cap * blk.isz) :
                      IF r.temp = NULL
                      THEN RaiseInMacro("shrink", 0, v, "realloc")
                      ELSE /\ hnd' = [hnd EXCEPT ![v] = r.temp]
                           /\ heap' = [r.heap EXCEPT ![r.temp].cap = new_cap]
                           /\ proc' = "running"
                           /\ last' = Call("shrink", 0, "realloc")
                           /\ Fits(heap')
           ELSE /\ UNCHANGED <<hnd, heap, proc>>
                /\ last' = Call("shrink", 0, "none")

(* ----------------------- vec_clear, vec_pop, vec_remove ---------------- *)

\* a clear that drops the last element only
vec_clear_last(v) ==
    /\ proc = "running"
    /\ hnd[v] \in Addr
    /\ heap' = [heap EXCEPT ![hnd[v]].len = IF @ > 0 THEN @ - 1 ELSE 0]
    /\ UNCHANGED <<hnd, proc>>
    /\ last' = Call("clear", 0, "none")

vec_clear(v) ==
    /\ proc = "running"
    /\ hnd[v] \in Addr
    /\ heap' = [heap EXCEPT ![hnd[v]].len = 0]
    /\ UNCHANGED <<hnd, proc>>
    /\ last' = Call("clear", 0, "none")

vec_pop(v) ==
    /\ proc = "running"
    /\ hnd[v] \in Addr
    /\ heap' = IF heap[hnd[v]].len > 0
               THEN [heap EXCEPT ![hnd[v]].len = @ - 1]
               ELSE heap
    /\ UNCHANGED <<hnd, proc>>
    /\ last' = Call("pop", 0, "none")

\* memmove(vec + index, vec + index + 1, len - (index + 1)); --len
vec_remove(v, index) ==
    /\ proc = "running"
    /\ hnd[v] \in Addr
    /\ last' = Call("remove", index, "none")
    /\ LET p == hnd[v]
           blk == heap[p]
           n == blk.len - (index + 1)
       IN  IF blk.len > 0 /\ index < blk.len
           THEN IF MoveOutside(blk.data, index, index + 1, n)
                THEN /\ proc' = "outside"
                     /\ UNCHANGED <<hnd, heap>>
                ELSE /\ heap' = [heap EXCEPT
                               ![p].data = Memmove(blk.data, index, index + 1, n),
                               ![p].len = @ - 1]
                     /\ UNCHANGED <<hnd, proc>>
           ELSE UNCHANGED <<hnd, heap, proc>>

(* ------------------------------ the queries ---------------------------- *)

\* a function that reads the header and returns ret
Query(v, op, ret) ==
    /\ proc = "running"
    /\ hnd[v] \in Addr
    /\ UNCHANGED <<hnd, heap, proc>>
    /\ last' = Call(op, ret, "none")

vec_cap(v) == Query(v, "cap", heap[hnd[v]].cap)
vec_len(v) == Query(v, "len", heap[hnd[v]].len)
vec_size(v) == Query(v, "len", heap[hnd[v]].len)
vec_isempty(v) == Query(v, "isempty", IF heap[hnd[v]].len = 0 THEN 1 ELSE 0)

(* ---------------------------- the programs ----------------------------- *)

\* the arguments a caller passes: every valid index and invalid ones on both
\* sides; sizes below, at and above the capacity
Live == {v \in Vars : hnd[v] \in Addr}
InsertIndices(v) == -1..(heap[hnd[v]].len + 1)
RemoveIndices(v) == 0..heap[hnd[v]].len
ReserveSizes(v) == {n \in (heap[hnd[v]].cap - 1)..(heap[hnd[v]].cap + 2) : n >= 0}
Owner == Live \cap {"a"}

Init ==
    /\ hnd = [v \in Vars |-> Unset]
    /\ heap = [q \in Addr |-> Dead]
    /\ proc = "running"
    /\ last = Call("init", 0, "none")

\* a program that owns one vec, a
Next ==
    \/ \E size \in ItemSizes, nitems \in 0..MaxInitCap : vec_newlen("a", size, nitems)
    \/ \E size \in ItemSizes : vec_new("a", size)
    \/ \E size \in ItemSizes, nitems \in 0..MaxInitCap : vec_newsize("a", size, nitems)
    \/ \E v \in Owner : vec_free(v)
    \/ \E v \in Owner, item \in Val : vec_push(v, item)
    \/ \E v \in Owner, item \in Val : \E index \in InsertIndices(v) :
          vec_insert(v, item, index)
    \/ \E v \in Owner : \E size \in ReserveSizes(v) : vec_reserve(v, size)
    \/ \E v \in Owner : vec_shrink(v)
    \/ \E v \in Owner : vec_clear(v)
    \/ \E v \in Owner : vec_pop(v)
    \/ \E v \in Owner : \E index \in RemoveIndices(v) : vec_remove(v, index)
    \/ \E v \in Owner : vec_cap(v)
    \/ \E v \in Owner : vec_len(v)
    \/ \E v \in Owner : vec_size(v)
    \/ \E v \in Owner : vec_isempty(v)

Spec == Init /\ [][Next]_vars

\* a program that owns two vecs of two-byte items: the first made by
\* vec_newlen as a, the other duplicated from the one that is live
PairNext ==
    \/ \E size \in {2}, nitems \in 0..MaxInitCap :
          Live = {} /\ vec_newlen("a", size, nitems) /\ Small(heap')
    \/ \E v \in Vars, w \in Vars : vec_dup(v, w) /\ Small(heap')
    \/ \E v \in Live : vec_free(v)
    \/ \E v \in Live, item \in Val : vec_push(v, item) /\ Small(heap')
    \/ \E v \in Live, item \in Val : \E index \in InsertIndices(v) :
          vec_insert(v, item, index) /\ Small(heap')
    \/ \E v \in Vars, w \in Vars : vec_swap(v, w)
    \/ \E v \in Live : \E size \in ReserveSizes(v) : vec_reserve(v, size) /\ Small(heap')
    \/ \E v \in Live : vec_shrink(v) /\ Small(heap')
    \/ \E v \in Live : vec_clear(v)
    \/ \E v \in Live : vec_pop(v)
    \/ \E v \in Live : \E index \in RemoveIndices(v) : vec_remove(v, index)

PairSpec == Init /\ [][PairNext]_vars

(* ------------------------------ the claims ---------------------------- *)

Max(x, y) == IF x >= y THEN x ELSE y

\* the step is the call named, on the vec v (last' names the call and one of
\* its arguments, the action formula ties the step to v)
Pushed(v) == last'.op = "push" /\ vec_push(v, last'.arg)
Inserted(v) == last'.op = "insert" /\ \E item \in Val : vec_insert(v, item, last'.arg)
Removed(v) == last'.op = "remove" /\ vec_remove(v, last'.arg)
Popped(v) == last'.op = "pop" /\ vec_pop(v)
Cleared(v) == last'.op = "clear" /\ vec_clear(v)
Reserved(v) == last'.op = "reserve" /\ vec_reserve(v, last'.arg)
Shrunk(v) == last'.op = "shrink" /\ vec_shrink(v)
Freed(v) == last'.op = "free" /\ vec_free(v)
Dupped(v, w) == last'.op = "dup" /\ vec_dup(v, w)

\* C1: in every reachable state, from any initial capacity and after any
\* sequence of calls, the header of every live vec has length <= capacity.
C1_LengthWithinCapacity ==
    \A q \in Addr : heap[q].live => heap[q].len <= heap[q].cap

\* what the growth rule makes of the capacity of a vec whose header was old
GrownCap(old) ==
    IF old.len = old.cap
    THEN (IF old.cap <= VEC_MAX_PREALLOC THEN 2 * old.cap ELSE old.cap + 1)
    ELSE old.cap

\* C2: a vec_push or a vec_insert with a valid index on a vec with length =
\* capacity leaves the capacity exactly doubled when the old capacity is at
\* most VEC_MAX_PREALLOC and exactly one larger otherwise; with length <
\* capacity it leaves the capacity as it was.
C2_GrowthPolicy ==
    [][\A v \in Live :
          (/\ hnd'[v] \in Addr
           /\ \/ Pushed(v)
              \/ last'.arg \in 0..heap[hnd[v]].len /\ Inserted(v))
          => heap'[hnd'[v]].cap = GrownCap(heap[hnd[v]])]_vars

\* a push that grew a full vec of capacity 4, above the threshold, to 5
C2_Witness ==
    /\ proc = "running"
    /\ last.op = "push"
    /\ last.prim = "realloc"
    /\ \E v \in Live : heap[hnd[v]].cap = 5 /\ heap[hnd[v]].len = 5

\* C3: vec_push(v, item) on a live vec of length L writes item at index L,
\* makes the length L + 1 and leaves the elements 0..L-1 and the item size as
\* they were, grown or not.
C3_PushAppends ==
    [][\A v \in Live :
          (hnd'[v] \in Addr /\ Pushed(v))
          => LET old == heap[hnd[v]]
                 new == heap'[hnd'[v]]
             IN  /\ new.len = old.len + 1
                 /\ old.len < Len(new.data)
                 /\ new.data[old.len + 1] = last'.arg
                 /\ \A k \in 1..old.len : new.data[k] = old.data[k]
                 /\ new.isz = old.isz]_vars

\* C4: vec_insert(v, item, i) with 0 <= i <= L on a vec of length L gives
\* length L + 1, item at i, the elements 0..i-1 as they were and the old
\* element j at j + 1 for every j in [i, L), grown or not.
C4_InsertShifts ==
    [][\A v \in Live, item \in Val :
          (/\ hnd'[v] \in Addr
           /\ last'.op = "insert"
           /\ last'.arg \in 0..heap[hnd[v]].len
           /\ vec_insert(v, item, last'.arg))
          => LET old == heap[hnd[v]]
                 new == heap'[hnd'[v]]
                 i == last'.arg
             IN  /\ new.len = old.len + 1
                 /\ new.len <= Len(new.data)
                 /\ new.data[i + 1] = item
                 /\ \A j \in 0..(i - 1) : new.data[j + 1] = old.data[j + 1]
                 /\ \A j \in i..(old.len - 1) : new.data[j + 2] = old.data[j + 1]]_vars

\* C5: vec_remove(v, i) with i < L on a vec of length L > 0 gives length
\* L - 1, the elements 0..i-1 as they were, the old element j + 1 at j for
\* every j in [i, L - 1), and the capacity and the item size as they were.
C5_RemoveShifts ==
    [][\A v \in Live :
          (last'.arg < heap[hnd[v]].len /\ Removed(v))
          => LET old == heap[hnd[v]]
                 new == heap'[hnd'[v]]
                 i == last'.arg
             IN  /\ proc' = "running"
                 /\ hnd' = hnd
                 /\ new.len = old.len - 1
                 /\ \A j \in 0..(i - 1) : new.data[j + 1] = old.data[j + 1]
                 /\ \A j \in i..(old.len - 2) : new.data[j + 1] = old.data[j + 2]
                 /\ new.cap = old.cap
                 /\ new.isz = old.isz]_vars

\* index 1 of three elements removed: one element shifted, one kept
C5_Witness ==
    /\ proc = "running"
    /\ last.op = "remove"
    /\ last.arg = 1
    /\ \E v \in Live : heap[hnd[v]].len = 2 /\ heap[hnd[v]].data[1] # heap[hnd[v]].data[2]

\* C6: vec_insert with a negative index or one above the length, vec_remove
\* with an index at or above the length and vec_pop on an empty vec change
\* nothing: the handles, every header and slot are as before, and no
\* allocation primitive is invoked.
C6_InvalidCallsChangeNothing ==
    [][\A v \in Live :
          (\/ (last'.arg < 0 \/ last'.arg > heap[hnd[v]].len) /\ Inserted(v)
           \/ last'.arg >= heap[hnd[v]].len /\ Removed(v)
           \/ heap[hnd[v]].len = 0 /\ Popped(v))
          => /\ UNCHANGED <<hnd, heap, proc>>
             /\ last'.prim = "none"]_vars

\* an insert one past the end of a full vec, which a valid insert would grow
C6_Witness ==
    /\ proc = "running"
    /\ last.op = "insert"
    /\ last.prim = "none"
    /\ \E v \in Live :
          /\ last.arg = heap[hnd[v]].len + 1
          /\ heap[hnd[v]].len = heap[hnd[v]].cap
          /\ heap[hnd[v]].len > 0

\* C7: when malloc or realloc fails the process terminates at that point: no
\* further step of the call runs, no pointer is assigned, nothing is stored.
C7_AllocFailureTerminates ==
    (proc \in {"killed", "nullstore"})
       => (proc = "killed" /\ \A v \in Vars : hnd[v] # NULL)

\* C8: vec_reserve(v, n) with n <= capacity invokes no allocation primitive
\* and changes nothing; with n > capacity it makes the capacity exactly n and
\* leaves the length, the item size and the elements 0..length-1 as they were.
C8_ReserveExact ==
    [][\A v \in Live :
          (proc' = "running" /\ Reserved(v))
          => LET old == heap[hnd[v]]
                 new == heap'[hnd'[v]]
                 n == last'.arg
             IN  IF n <= old.cap
                 THEN UNCHANGED <<hnd, heap>> /\ last'.prim = "none"
                 ELSE /\ new.cap = n
                      /\ new.len = old.len
                      /\ new.isz = old.isz
                      /\ \A k \in 1..old.len : new.data[k] = old.data[k]]_vars

\* a reserve of 3 on a vec of capacity 1 that holds an element: 3, not 2
C8_Witness ==
    /\ proc = "running"
    /\ last.op = "reserve"
    /\ last.prim = "realloc"
    /\ last.arg = 3
    /\ \E v \in Live : heap[hnd[v]].cap = 3 /\ heap[hnd[v]].len = 1

\* C9: after vec_shrink on a live vec of length k the capacity is max(k, 1),
\* never zero, and the length, the item size and the elements 0..k-1 are as
\* they were.
C9_ShrinkToLength ==
    [][\A v \in Live :
          (proc' = "running" /\ Shrunk(v))
          => LET old == heap[hnd[v]]
                 new == heap'[hnd'[v]]
             IN  /\ new.cap = Max(old.len, 1)
                 /\ new.cap # 0
                 /\ new.len = old.len
                 /\ new.isz = old.isz
                 /\ \A k \in 1..old.len : new.data[k] = old.data[k]]_vars

\* the step is a call that mutates or destroys the vec w
Mutated(w) ==
    \/ Pushed(w)
    \/ Inserted(w)
    \/ Removed(w)
    \/ Popped(w)
    \/ Cleared(w)
    \/ Reserved(w)
    \/ Shrunk(w)
    \/ Freed(w)

\* C10: vec_dup(v) returns a vec in another allocation with the length, the
\* capacity, the item size and every slot 0..capacity-1 of v, and leaves v as
\* it was; afterwards a call on either vec leaves the handle, the header and
\* the slots of the other as they were.
C10_DupIndependent ==
    [][/\ \A v \in Vars, w \in Vars :
            (proc' = "running" /\ Dupped(v, w))
            => /\ hnd'[w] \in Addr
               /\ hnd'[w] # hnd[v]
               /\ ~heap[hnd'[w]].live
               /\ hnd'[v] = hnd[v]
               /\ heap'[hnd[v]] = heap[hnd[v]]
               /\ heap'[hnd'[w]].len = heap[hnd[v]].len
               /\ heap'[hnd'[w]].cap = heap[hnd[v]].cap
               /\ heap'[hnd'[w]].isz = heap[hnd[v]].isz
               /\ Len(heap'[hnd'[w]].data) = heap[hnd[v]].cap
               /\ \A k \in 1..heap[hnd[v]].cap :
                     heap'[hnd'[w]].data[k] = heap[hnd[v]].data[k]
       /\ \A v \in Live, w \in Live :
            (v # w /\ proc' = "running" /\ Mutated(w))
            => /\ hnd'[v] = hnd[v]
               /\ heap'[hnd[v]] = heap[hnd[v]]]_vars

\* the copy b has grown by a push while the original a kept its one element
C10_Witness ==
    /\ proc = "running"
    /\ last.op = "push"
    /\ last.prim = "realloc"
    /\ Live = Vars
    /\ heap[hnd["a"]].cap = 1 /\ heap[hnd["a"]].len = 1
    /\ heap[hnd["b"]].cap = 2 /\ heap[hnd["b"]].len = 2
    /\ heap[hnd["a"]].data[1] # heap[hnd["b"]].data[1]

C12_PreallocBounded ==
    [][\A v \in Live :
          (/\ proc' = "running"
           /\ last'.prim = "realloc"
           /\ \/ Pushed(v)
              \/ last'.arg \in 0..heap[hnd[v]].len /\ Inserted(v))
          => LET new == heap'[hnd'[v]]
             IN  (new.cap - new.len) * new.isz <= VEC_MAX_PREALLOC]_vars

\* the step is a query on the vec v
Queried(v) ==
    /\ last'.op \in {"cap", "len", "isempty"}
    /\ (vec_cap(v) \/ vec_len(v) \/ vec_size(v) \/ vec_isempty(v))

\* C13: vec_cap, vec_len, vec_size, vec_isempty, vec_pop, vec_remove and
\* vec_clear invoke no allocation primitive and leave the handle, the
\* capacity and the item size as they were; vec_clear leaves the length 0
\* whatever it was.
C13_NoCapacityEffect ==
    [][\A v \in Live :
          (Queried(v) \/ Popped(v) \/ Removed(v) \/ Cleared(v))
          => /\ last'.prim = "none"
             /\ proc' = "running"
             /\ hnd' = hnd
             /\ heap'[hnd'[v]].cap = heap[hnd[v]].cap
             /\ heap'[hnd'[v]].isz = heap[hnd[v]].isz
             /\ heap'[hnd'[v]].size = heap[hnd[v]].size
             /\ Queried(v) => heap' = heap
             /\ Cleared(v) => heap'[hnd'[v]].len = 0]_vars

\* a vec of capacity 4 cleared while it held elements: the slots are kept
C13_Witness ==
    /\ proc = "running"
    /\ last.op = "clear"
    /\ \E v \in Live :
          /\ heap[hnd[v]].len = 0
          /\ heap[hnd[v]].cap = 4
          /\ heap[hnd[v]].data[2] = 1

\* C14: the item size in the header of a vec is the size given when it was
\* created and is the same after every vec_push, vec_insert, vec_remove,
\* vec_pop, vec_clear, vec_reserve and vec_shrink; the vec that vec_dup returns
\* has the item size of its source.
C14_ItemSizeImmutable ==
    [][/\ \A v \in Vars, size \in ItemSizes :
            (/\ proc' = "running"
             /\ last'.op = "newlen"
             /\ vec_newlen(v, size, last'.arg))
            => heap'[hnd'[v]].isz = size
       /\ \A v \in Live :
            (last'.op # "swap" /\ hnd'[v] \in Addr)
            => heap'[hnd'[v]].isz = heap[hnd[v]].isz
       /\ \A v \in Vars, w \in Vars :
            (proc' = "running" /\ Dupped(v, w))
            => /\ heap'[hnd'[w]].isz = heap[hnd[v]].isz
               /\ heap'[hnd'[v]].isz = heap[hnd[v]].isz]_vars

\* a vec and its duplicate, one grown and then shrunk by reallocations
C14_Witness ==
    /\ proc = "running"
    /\ last.op = "shrink"
    /\ last.prim = "realloc"
    /\ Live = Vars
    /\ heap[hnd["a"]].isz = 2
    /\ heap[hnd["b"]].isz = 2
    /\ heap[hnd["a"]].cap # heap[hnd["b"]].cap

\* C15: vec_newlen(size, c) that returns gives a vec of capacity c, length 0
\* and item size size, with c slots all zero, in an allocation of three words
\* + size * c bytes that was not live before; vec_new(size) and
\* vec_newsize(size, c) are vec_newlen(size, 1) and vec_newlen(size, c).
C15_CreateZeroFilled ==
    [][last'.op = "newlen"
       => \A v \in Vars, size \in ItemSizes :
            /\ (proc' = "running" /\ vec_newlen(v, size, last'.arg))
               => LET new == heap'[hnd'[v]]
                      c == last'.arg
                  IN  /\ hnd'[v] \in Addr
                      /\ ~heap[hnd'[v]].live
                      /\ new.live
                      /\ new.cap = c
                      /\ new.len = 0
                      /\ new.isz = size
                      /\ new.size = 3 * SIZEOF_SIZE_T + size * c
                      /\ Len(new.data) = c
                      /\ \A k \in 1..c : new.data[k] = 0
                      /\ \A q \in Addr \ {hnd'[v]} : heap'[q] = heap[q]
            /\ vec_new(v, size) <=> vec_newlen(v, size, 1)
            /\ \A c \in 0..MaxInitCap :
                  vec_newsize(v, size, c) <=> vec_newlen(v, size, c)]_vars

\* a new vec of two 2-byte items, both zero
C15_Witness ==
    /\ proc = "running"
    /\ last.op = "newlen"
    /\ last.arg = 2
    /\ \E v \in Live :
          /\ heap[hnd[v]].cap = 2
          /\ heap[hnd[v]].len = 0
          /\ heap[hnd[v]].isz = 2
          /\ heap[hnd[v]].data = <<0, 0>>

\* C16: a call other than vec_free that leaves the capacity of a vec as it
\* was performs no reallocation and leaves the handle as it was: the handle
\* held before the call is still valid.  Stated for the vecs of capacity > 0.
C16_ReallocOnlyOnCapacityChange ==
    [][\A v \in Live :
          (/\ last'.op # "free"
           /\ heap[hnd[v]].cap > 0
           /\ hnd'[v] \in Addr
           /\ heap'[hnd'[v]].cap = heap[hnd[v]].cap)
          => /\ last'.prim = "none"
             /\ hnd'[v] = hnd[v]]_vars

\* C17: every slot that vec_push, vec_insert and vec_remove write or move
\* lies inside the allocation: no call stores or moves outside slots
\* 0..capacity-1 of its vec, from any initial capacity.
C17_WritesInsideAllocation == proc # "outside"

\* the blocks the caller's variables point into
Owned == {hnd[v] : v \in Live}

\* C18: after every call that returns, the live allocations are exactly the
\* blocks the caller's vecs point into, one block for each vec; a call that
\* moves its vec leaves the old block released, and vec_free releases the one
\* block of its vec and no other.
C18_HeapAccounting ==
    [][/\ proc' = "running"
          => /\ LiveAddrs(heap') = Owned'
             /\ Cardinality(Owned') = Cardinality(Live')
       /\ \A v \in Live :
             (proc' = "running" /\ hnd'[v] \in Addr /\ last'.prim = "realloc"
                /\ hnd'[v] # hnd[v])
             => /\ ~heap'[hnd[v]].live
                /\ ~heap[hnd'[v]].live
       /\ \A v \in Live :
             Freed(v)
             => /\ LiveAddrs(heap') = LiveAddrs(heap) \ {hnd[v]}
                /\ \A q \in Addr \ {hnd[v]} : heap'[q] = heap[q]
                /\ Live' = Live \ {v}]_vars

\* two vecs swapped after one of them was moved by a reallocation
C18_Witness ==
    /\ proc = "running"
    /\ last.op = "swap"
    /\ Live = Vars
    /\ hnd["a"] = 3
    /\ heap[hnd["a"]].cap # heap[hnd["b"]].cap
    /\ Cardinality(LiveAddrs(heap)) = 2

\* C19: vec_insert(v, x, L) on a vec of length L does what vec_push(v, x)
\* does: a step of either call leaves length L + 1, the capacity the growth
\* rule gives, the item size as it was, a reallocation exactly when the vec
\* was full, the elements 0..L-1 as they were and x at L; on a vec of capacity
\* 0 both run into the same store outside the block.
C19_InsertAtEndIsPush ==
    [][\A v \in Live, item \in Val :
          LET old == heap[hnd[v]]
              new == heap'[hnd'[v]]
          IN  (/\ hnd'[v] \in Addr
               /\ \/ last'.arg = item /\ Pushed(v)
                  \/ /\ last'.op = "insert"
                     /\ last'.arg = old.len
                     /\ vec_insert(v, item, old.len))
              => /\ new.len = old.len + 1
                 /\ new.cap = GrownCap(old)
                 /\ new.isz = old.isz
                 /\ last'.prim = (IF old.len = old.cap THEN "realloc" ELSE "none")
                 /\ (proc' = "outside") <=> (old.cap = 0)
                 /\ proc' = "running"
                    => /\ \A k \in 1..old.len : new.data[k] = old.data[k]
                       /\ new.data[old.len + 1] = item]_vars

\* an insert at the end of a full vec of capacity 2, grown to 4
C19_Witness ==
    /\ proc = "running"
    /\ last.op = "insert"
    /\ last.prim = "realloc"
    /\ \E v \in Live :
          /\ last.arg = heap[hnd[v]].len - 1
          /\ heap[hnd[v]].len = 3
          /\ heap[hnd[v]].cap = 4
          /\ heap[hnd[v]].data[3] = 1

\* the blocks x and y hold the same elements
SameElements(x, y) ==
    /\ x.len = y.len
    /\ \A k \in 1..x.len : x.data[k] = y.data[k]

\* the elements of x are those of y with one more at index i
OneMoreAt(x, y, i) ==
    /\ x.len = y.len + 1
    /\ \A j \in 0..(i - 1) : x.data[j + 1] = y.data[j + 1]
    /\ \A j \in i..(y.len - 1) : x.data[j + 2] = y.data[j + 1]

\* C20: for a vec v of length L, an index i in 0..L and a second vec w that
\* holds the elements of v and is not touched: vec_insert(v, x, i) leaves v
\* with the elements of w and one more at i, and vec_remove(v, i) right after
\* it leaves v with length L and the elements of w again; the capacity of v
\* is never smaller than before.
C20_InsertRemoveRoundTrip ==
    [][\A v \in Live, w \in Live :
          v # w
          => LET old == heap[hnd[v]]
                 new == heap'[hnd'[v]]
                 keep == heap[hnd[w]]
             IN  /\ (/\ SameElements(old, keep)
                     /\ last'.arg \in 0..old.len
                     /\ Inserted(v)
                     /\ hnd'[v] \in Addr)
                    => /\ proc' = "running"
                       /\ heap'[hnd'[w]] = keep
                       /\ OneMoreAt(new, keep, last'.arg)
                       /\ new.cap >= old.cap
                 /\ (/\ last.op = "insert"
                     /\ last.arg \in 0..keep.len
                     /\ OneMoreAt(old, keep, last.arg)
                     /\ last'.arg = last.arg
                     /\ Removed(v))
                    => /\ proc' = "running"
                       /\ heap'[hnd'[w]] = keep
                       /\ SameElements(new, keep)
                       /\ new.cap = old.cap]_vars

TypeOK ==
    /\ hnd \in [Vars -> Addr \cup {NULL, Unset}]
    /\ proc \in {"running", "killed", "nullstore", "outside"}
    /\ \A q \in Addr :
          /\ heap[q].live \in BOOLEAN
          /\ heap[q].data \in Seq(Val)
          /\ heap[q].live => heap[q].isz \in ItemSizes

====
